---- MODULE Spec2Model ----
(***************************************************************************)
(* Model of mpirun_nlogo: the sweep driver (mpirun_nlogo.py main and its   *)
(* helpers), the value-set expander (nlogo_io.py) and the result collator  *)
(* (collect_data.py).                                                      *)
(*                                                                         *)
(* Text is modelled as sequences of character codes (ASCII), so that the   *)
(* string operations of the code (zfill, partition, replace, the           *)
(* lexicographic list sort) are computed rather than assumed.  A text file *)
(* is a record [exists, writes]: writes is the sequence of strings handed  *)
(* to write() in append mode; ReadLines gives what readlines() returns.    *)
(***************************************************************************)
EXTENDS Integers, Sequences, FiniteSets, TLC

\* ------------------------------------------------------------------ bounds
MaxWorkers == 2
MaxExps == 2
MaxReps == 2
MaxCrashes == 1
MaxBad == 1

\* ------------------------------------------------------- program constants
COMMA == 44
NL == 10
QUOTE == 34
ZFillWidth == 6
HeaderRow == 6
DataRow == 7

\* ------------------------------------------------------------ string helpers
RECURSIVE Concat(_)
\* "".join(seq): the strings of a sequence, one after the other
Concat(ss) == IF ss = <<>> THEN <<>> ELSE Head(ss) \o Concat(Tail(ss))

RECURSIVE LexLess(_, _)
\* Python's str "<": code-point-wise, a proper prefix is smaller
LexLess(a, b) ==
    IF b = <<>> THEN FALSE
    ELSE IF a = <<>> THEN TRUE
    ELSE IF Head(a) # Head(b) THEN Head(a) < Head(b)
    ELSE LexLess(Tail(a), Tail(b))

RECURSIVE Partition0(_)
\* s.partition(",")[0]: the text before the first comma (all of s if none)
Partition0(s) ==
    IF s = <<>> \/ Head(s) = COMMA THEN <<>>
    ELSE <<Head(s)>> \o Partition0(Tail(s))

RECURSIVE Digits(_)
\* str(n) for n >= 0
Digits(n) == IF n < 10 THEN <<48 + n>> ELSE Digits(n \div 10) \o <<48 + (n % 10)>>

RECURSIVE ZFill(_, _)
\* s.zfill(width): left-padded with "0", never truncated
ZFill(s, width) == IF Len(s) >= width THEN s ELSE ZFill(<<48>> \o s, width)

\* string.replace(s, '"', '')
StripQuotes(s) == SelectSeq(s, LAMBDA c : c # QUOTE)

\* name.replace(' ', '_').replace('/', '-').replace('\\', '-')
SafeName(name) ==
    [k \in 1..Len(name) |->
        IF name[k] = 32 THEN 95
        ELSE IF name[k] = 47 \/ name[k] = 92 THEN 45
        ELSE name[k]]

RECURSIVE JoinLines(_, _)
\* readlines() of the text made of the written strings: a string that does
\* not end in a newline runs on into the next one
JoinLines(ws, cur) ==
    IF ws = <<>> THEN (IF cur = <<>> THEN <<>> ELSE <<cur>>)
    ELSE LET s == cur \o Head(ws) IN
         IF s # <<>> /\ s[Len(s)] = NL
         THEN <<s>> \o JoinLines(Tail(ws), <<>>)
         ELSE JoinLines(Tail(ws), s)

ReadLines(file) == JoinLines(file.writes, <<>>)

NoFile == [exists |-> FALSE, writes |-> <<>>]

\* open(name, "a"); write(s)
AppendTo(file, s) == [exists |-> TRUE, writes |-> Append(file.writes, s)]

\* ---------------------------------------------------------------- file names
RankWidth == 4

\* "proc" + str(mpi_rank).zfill(4) cut to the last four digits of the rank
proc_filename_fixed(mpi_rank, ext) ==
    LET d == ZFill(Digits(mpi_rank), RankWidth) IN
    <<112, 114, 111, 99>> \o SubSeq(d, Len(d) - RankWidth + 1, Len(d)) \o ext

\* os.path.join(output_dir, "proc" + str(mpi_rank).zfill(4) + ext), the
\* directory the same for all ranks and left out
proc_filename(mpi_rank, ext) ==
    <<112, 114, 111, 99>> \o ZFill(Digits(mpi_rank), RankWidth) \o ext

xml_filename(mpi_rank) == proc_filename(mpi_rank, <<46, 120, 109, 108>>)
dat_filename(mpi_rank) == proc_filename(mpi_rank, <<46, 100, 97, 116>>)
csv_filename(mpi_rank) == proc_filename(mpi_rank, <<46, 99, 115, 118>>)

\* "headers.dat"
hdr_filename == <<104, 101, 97, 100, 101, 114, 115, 46, 100, 97, 116>>

\* ------------------------------------------------------- value-set expander
RECURSIVE expandValueSets(_)
\* nlogo_io.expandValueSets, run to exhaustion: [raised, out].  A value
\* tuple is [variable, values]; a combination is a sequence of
\* [variable, value] pairs.  With an empty list the first next() evaluates
\* value_tuples[0] in the else branch and raises IndexError.
expandValueSets(value_tuples) ==
    IF Len(value_tuples) = 0 THEN [raised |-> TRUE, out |-> <<>>]
    ELSE LET var == value_tuples[1].variable
             vals == value_tuples[1].values
         IN  IF Len(value_tuples) = 1
             THEN [raised |-> FALSE,
                   out |-> [k \in 1..Len(vals) |->
                              <<[variable |-> var, value |-> vals[k]]>>]]
             ELSE LET rest == expandValueSets(Tail(value_tuples)).out
                  IN  [raised |-> FALSE,
                       out |-> Concat([k \in 1..Len(vals) |->
                                 [j \in 1..Len(rest) |->
                                    <<[variable |-> var, value |-> vals[k]]>>
                                       \o rest[j]]])]

RECURSIVE SteppedLoop(_, _, _, _, _)
\* the while loop of steppedValueSet: val = first + n * step while val <= last
SteppedLoop(first, step, last, n, values) ==
    IF first + n * step <= last
    THEN SteppedLoop(first, step, last, n + 1, Append(values, first + n * step))
    ELSE values

\* nlogo_io.steppedValueSet, for the inputs on which its loop ends
steppedValueSet(first, step, last) == SteppedLoop(first, step, last, 0, <<>>)

RECURSIVE Product(_)
Product(ns) == IF ns = <<>> THEN 1 ELSE Head(ns) * Product(Tail(ns))

\* ------------------------------------------------------------- experiments
\* An experiment of the .nlogo file: [name, repetitions, evs, svs], evs the
\* enumeratedValueSets [variable, values], svs the steppedValueSets
\* [variable, first, step, last].

\* main: value_tuples after both value-set loops
ValueTuples(e) ==
    SelectSeq(e.evs, LAMBDA v : Len(v.values) > 1)
      \o [k \in 1..Len(e.svs) |->
            [variable |-> e.svs[k].variable,
             values |-> steppedValueSet(e.svs[k].first, e.svs[k].step, e.svs[k].last)]]

\* main: num_individual_runs
NumIndividualRuns(e) ==
    LET vt == ValueTuples(e) IN Product([k \in 1..Len(vt) |-> Len(vt[k].values)])

\* main: exp_all, filled from the generator only when num_individual_runs > 1
ExpAll(e) ==
    IF NumIndividualRuns(e) > 1 THEN expandValueSets(ValueTuples(e)).out ELSE <<>>

\* main: reps_of_experiment; repetitions_per_run 0 stands for the unset switch
RepsOfExperiment(e, repetitions_per_run) ==
    IF repetitions_per_run > 0 /\ e.repetitions >= repetitions_per_run
    THEN e.repetitions \div repetitions_per_run
    ELSE 1

\* get_experiment_names
get_experiment_names(experiments) ==
    [k \in 1..Len(experiments) |-> SafeName(experiments[k].name)]

\* get_experiment_lengths: the same product, computed without value_tuples
get_experiment_lengths(experiments) ==
    [k \in 1..Len(experiments) |->
        LET e == experiments[k]
            multi == SelectSeq(e.evs, LAMBDA v : Len(v.values) > 1)
        IN  Product([j \in 1..Len(multi) |-> Len(multi[j].values)])
              * Product([j \in 1..Len(e.svs) |->
                   Len(steppedValueSet(e.svs[j].first, e.svs[j].step, e.svs[j].last))])]

\* ---------------------------------------------------------------- planner
\* get_last_run with csv_filename resolved to the result file: the else of
\* its for loop then resets last to "", and the result is that of a first run
get_last_run_fallthrough(file) ==
    [raised |-> FALSE, last_exp |-> <<>>, last_i |-> -1]

\* get_last_run: [raised, last_exp, last_i].  When the file exists the body
\* opens csv_filename, a name bound neither in the function (its parameter
\* is cvs_filename) nor in the module: NameError.
get_last_run(file) ==
    IF file.exists
    THEN [raised |-> TRUE, last_exp |-> <<>>, last_i |-> -1]
    ELSE [raised |-> FALSE, last_exp |-> <<>>, last_i |-> -1]

\* the body of get_start_run after its call of get_last_run
StartFrom(experiment_names, experiment_lengths, last, mpi_rank, mpi_size) ==
    LET num_exp == Len(experiment_names)
        hits == {k \in 1..num_exp : experiment_names[k] = last.last_exp}
    IN  IF last.last_i > -1
        THEN IF hits = {}
             THEN \* start_exp never bound: UnboundLocalError at the return
                  [raised |-> TRUE, start_exp |-> <<>>, start_i |-> -1]
             ELSE LET k == CHOOSE h \in hits : \A g \in hits : h <= g IN
                  IF last.last_i + mpi_size < experiment_lengths[k]
                  THEN [raised |-> FALSE, start_exp |-> experiment_names[k],
                        start_i |-> last.last_i + mpi_size]
                  ELSE IF k + 1 <= num_exp
                  THEN [raised |-> FALSE, start_exp |-> experiment_names[k + 1],
                        start_i |-> mpi_rank]
                  ELSE [raised |-> FALSE, start_exp |-> experiment_names[k],
                        start_i |-> last.last_i + mpi_size]
        ELSE IF num_exp = 0
        THEN [raised |-> TRUE, start_exp |-> <<>>, start_i |-> -1]
        ELSE [raised |-> FALSE, start_exp |-> experiment_names[1], start_i |-> mpi_rank]

\* get_start_run
get_start_run(experiment_names, experiment_lengths, file, mpi_rank, mpi_size) ==
    LET last == get_last_run(file) IN
    IF last.raised
    THEN [raised |-> TRUE, start_exp |-> <<>>, start_i |-> -1]
    ELSE StartFrom(experiment_names, experiment_lengths, last, mpi_rank, mpi_size)

\* --------------------------------------------------------------- collator
RECURSIVE InsertSorted(_, _)
InsertSorted(sorted, line) ==
    IF sorted = <<>> THEN <<line>>
    ELSE IF LexLess(line, Head(sorted)) THEN <<line>> \o sorted
    ELSE <<Head(sorted)>> \o InsertSorted(Tail(sorted), line)

RECURSIVE SortLines(_)
\* all_lines.sort(): ascending by full line
SortLines(lines) ==
    IF lines = <<>> THEN <<>>
    ELSE InsertSorted(SortLines(Tail(lines)), Head(lines))

\* the lines of the files in the order read, the sort left out
ReadUnsorted(files) ==
    Concat([k \in 1..Len(files) |-> ReadLines(files[k])])

\* collect_data: the lines of the files, the files in sorted name order, sorted
ReadAndSort(files) ==
    SortLines(Concat([k \in 1..Len(files) |-> ReadLines(files[k])]))

\* the header insertion with a header that matches no line put at the end
InsertHeaderOrAppend(all_lines, header) ==
    LET header_exp == Partition0(header)
        hits == {i \in 1..Len(all_lines) : Partition0(all_lines[i]) = header_exp}
    IN  IF hits = {} THEN Append(all_lines, header)
        ELSE LET i == CHOOSE h \in hits : \A g \in hits : h <= g IN
             SubSeq(all_lines, 1, i - 1) \o <<header>>
                \o SubSeq(all_lines, i, Len(all_lines))

\* the inner loop of the header insertion: before the first line with the
\* header's leading field, or nowhere
InsertHeader(all_lines, header) ==
    LET header_exp == Partition0(header)
        hits == {i \in 1..Len(all_lines) : Partition0(all_lines[i]) = header_exp}
    IN  IF hits = {} THEN all_lines
        ELSE LET i == CHOOSE h \in hits : \A g \in hits : h <= g IN
             SubSeq(all_lines, 1, i - 1) \o <<header>>
                \o SubSeq(all_lines, i, Len(all_lines))

RECURSIVE InsertHeaders(_, _)
\* for header in headers: ...
InsertHeaders(all_lines, headers) ==
    IF headers = <<>> THEN all_lines
    ELSE InsertHeaders(InsertHeader(all_lines, Head(headers)), Tail(headers))

RECURSIVE SplitLoopStaleKey(_, _, _)
\* the split loop without its bsexp = lineexp: every line of a later key
\* opens a file of its own
SplitLoopStaleKey(lines, bsexp, files) ==
    IF lines = <<>> THEN files
    ELSE LET line == Head(lines)
             lineexp == Partition0(line)
             n == Len(files)
         IN  IF lineexp = bsexp
             THEN SplitLoopStaleKey(Tail(lines), bsexp,
                                    [files EXCEPT ![n] = Append(files[n], line)])
             ELSE SplitLoopStaleKey(Tail(lines), bsexp, Append(files, <<line>>))

RECURSIVE SplitLoop(_, _, _)
\* the split loop: files is the sequence of bs_NNN.csv written so far, the
\* last one still open; bsexp the key of the open file
SplitLoop(lines, bsexp, files) ==
    IF lines = <<>> THEN files
    ELSE LET line == Head(lines)
             lineexp == Partition0(line)
             n == Len(files)
         IN  IF lineexp = bsexp
             THEN SplitLoop(Tail(lines), bsexp,
                            [files EXCEPT ![n] = Append(files[n], line)])
             ELSE SplitLoop(Tail(lines), lineexp, Append(files, <<line>>))

\* collect_data.py as a whole: [failed, all_lines, out], out[k] the lines of
\* bs_<k-1>.csv.  A missing headers.dat raises IOError at its open and an
\* empty all_lines raises IndexError at all_lines[0], both before any output
\* file is opened.
Collate(files, headers_file) ==
    LET sorted == ReadAndSort(files)
        merged == InsertHeaders(sorted, ReadLines(headers_file))
    IN  IF ~headers_file.exists
        THEN [failed |-> TRUE, all_lines |-> sorted, out |-> <<>>]
        ELSE IF merged = <<>>
        THEN [failed |-> TRUE, all_lines |-> merged, out |-> <<>>]
        ELSE [failed |-> FALSE, all_lines |-> merged,
              out |-> SplitLoop(merged, Partition0(merged[1]), << <<>> >>)]

\* ------------------------------------------------------------------ state
VARIABLES
    mpi_size,             \* MPI.COMM_WORLD size
    experiments,          \* the selected experiments of the .nlogo file, in order
    repetitions_per_run,  \* --repetitions_per_run, 0 when unset
    pc,                   \* per rank: where the worker process is
    start_exp_name,       \* per rank: main's locals
    start_i,
    started,
    cur,                  \* per rank: position of the experiment loop
    exp_all,
    exp_i,
    exp_clone,
    csv,                  \* per rank: procNNNN.csv
    dat,                  \* per rank: procNNNN.dat, [exists, nlines]
    xml,                  \* per rank: whether procNNNN.xml exists
    hdr,                  \* headers.dat
    crashes,              \* number of workers killed so far
    bad,                  \* number of simulations that did not write a full table
    resumed,              \* per rank: records in the result file at the last restart (0: no file), -1 if never restarted
    cpc,                  \* collect_data.py: "idle", "done" or "failed"
    all_lines,            \* collect_data.py: all_lines
    out,                  \* collect_data.py: the bs_NNN.csv files written
    vs_pc,                \* nlogo_io: where a call of one of its functions is
    stepped,              \* steppedValueSet: its arguments and locals
    expanded              \* expandValueSets: its argument and what it yields

vars == <<mpi_size, experiments, repetitions_per_run, pc, start_exp_name, start_i,
          started, cur, exp_all, exp_i, exp_clone, csv, dat, xml, hdr, crashes, bad,
          resumed, cpc, all_lines, out, vs_pc, stepped, expanded>>

expander == <<vs_pc, stepped, expanded>>

config == <<mpi_size, experiments, repetitions_per_run>>
locals == <<start_exp_name, start_i, started, cur, exp_all, exp_i, exp_clone>>
collator == <<cpc, all_lines, out>>

Ranks == 0..(mpi_size - 1)

NoDat == [exists |-> FALSE, nlines |-> 0]

\* row k (from 0) of the table NetLogo writes: the column names in row
\* HeaderRow, the first data row, its fields quoted, in row DataRow
DatLine(k) ==
    IF k = HeaderRow THEN <<104, NL>>
    ELSE IF k = DataRow THEN <<QUOTE, 100, QUOTE, NL>>
    ELSE <<NL>>

\* the experiments the sweep is drawn from: no multi-value set (the dummy
\* expansion), an empty stepped set, two values, three values
ExperimentShapes ==
    { [evs |-> <<[variable |-> "x", values |-> <<1>>]>>, svs |-> <<>>],
      [evs |-> <<>>, svs |-> <<[variable |-> "s", first |-> 1, step |-> 1, last |-> 0]>>],
      [evs |-> <<[variable |-> "x", values |-> <<1, 2>>]>>, svs |-> <<>>],
      [evs |-> <<>>, svs |-> <<[variable |-> "s", first |-> 0, step |-> 1, last |-> 2]>>] }

\* the name attribute of the k-th experiment: "a", "a+", "b 3", "b 4", ...
RawName(k) ==
    IF k = 1 THEN <<97>> ELSE IF k = 2 THEN <<97, 43>> ELSE <<98, 32, 48 + k>>

ExperimentLists ==
    UNION { [1..n -> ExperimentShapes] : n \in 1..MaxExps }

MakeExperiments(shapes) ==
    [k \in 1..Len(shapes) |->
        [name |-> RawName(k), repetitions |-> MaxReps,
         evs |-> shapes[k].evs, svs |-> shapes[k].svs]]

InitWorkers ==
    /\ start_exp_name = [r \in Ranks |-> <<>>]
    /\ start_i = [r \in Ranks |-> 0]
    /\ started = [r \in Ranks |-> FALSE]
    /\ cur = [r \in Ranks |-> 0]
    /\ exp_all = [r \in Ranks |-> <<>>]
    /\ exp_i = [r \in Ranks |-> 0]
    /\ exp_clone = [r \in Ranks |-> 0]
    /\ dat = [r \in Ranks |-> NoDat]
    /\ xml = [r \in Ranks |-> FALSE]
    /\ resumed = [r \in Ranks |-> -1]

InitCollator ==
    /\ cpc = "idle"
    /\ all_lines = <<>>
    /\ out = <<>>

\* no function of nlogo_io is being followed on its own
InitExpander ==
    /\ vs_pc = "idle"
    /\ stepped = [first |-> 0, step |-> 0, last |-> 0, n |-> 0, val |-> 0, values |-> <<>>]
    /\ expanded = [value_tuples |-> <<>>, out |-> <<>>]

Init ==
    /\ mpi_size \in 1..MaxWorkers
    /\ \E shapes \in ExperimentLists : experiments = MakeExperiments(shapes)
    /\ repetitions_per_run \in {0, 1}
    /\ InitWorkers
    /\ pc = [r \in Ranks |-> "start"]
    /\ csv = [r \in Ranks |-> NoFile]
    /\ hdr = NoFile
    /\ crashes = 0
    /\ bad = 0
    /\ InitCollator
    /\ InitExpander

\* the process of rank r is gone: its locals with it
Forget(r) ==
    /\ start_exp_name' = [start_exp_name EXCEPT ![r] = <<>>]
    /\ start_i' = [start_i EXCEPT ![r] = 0]
    /\ started' = [started EXCEPT ![r] = FALSE]
    /\ cur' = [cur EXCEPT ![r] = 0]
    /\ exp_all' = [exp_all EXCEPT ![r] = <<>>]
    /\ exp_i' = [exp_i EXCEPT ![r] = 0]
    /\ exp_clone' = [exp_clone EXCEPT ![r] = 0]

\* an uncaught exception or exit(errno)
Die(r) ==
    /\ pc' = [pc EXCEPT ![r] = "failed"]
    /\ Forget(r)

\* main up to the experiment loop: the file names, get_start_run
Start(r) ==
    /\ pc[r] = "start"
    /\ cpc = "idle"
    /\ LET s == get_start_run(get_experiment_names(experiments),
                              get_experiment_lengths(experiments),
                              csv[r], r, mpi_size)
       IN  IF s.raised
           THEN Die(r)
           ELSE /\ pc' = [pc EXCEPT ![r] = "experiment"]
                /\ start_exp_name' = [start_exp_name EXCEPT ![r] = s.start_exp]
                /\ start_i' = [start_i EXCEPT ![r] = s.start_i]
                /\ started' = [started EXCEPT ![r] = FALSE]
                /\ cur' = [cur EXCEPT ![r] = 1]
                /\ UNCHANGED <<exp_all, exp_i, exp_clone>>
    /\ UNCHANGED <<config, expander, csv, dat, xml, hdr, crashes, bad, resumed, collator>>

\* the head of the experiment loop with every experiment after the start
\* experiment begun at index 0 instead of mpi_rank
BeginExperimentAtZero(r) ==
    /\ pc[r] = "experiment"
    /\ IF cur[r] > Len(experiments)
       THEN /\ pc' = [pc EXCEPT ![r] = "done"]
            /\ Forget(r)
       ELSE LET e == experiments[cur[r]] IN
            /\ pc' = [pc EXCEPT ![r] = "index"]
            /\ exp_all' = [exp_all EXCEPT ![r] = ExpAll(e)]
            /\ exp_clone' = [exp_clone EXCEPT ![r] = 0]
            /\ IF started[r]
               THEN /\ exp_i' = [exp_i EXCEPT ![r] = 0]
                    /\ UNCHANGED started
               ELSE IF start_exp_name[r] = SafeName(e.name)
               THEN /\ exp_i' = [exp_i EXCEPT ![r] = start_i[r]]
                    /\ started' = [started EXCEPT ![r] = TRUE]
               ELSE /\ exp_i' = [exp_i EXCEPT ![r] = NumIndividualRuns(e) + 1]
                    /\ UNCHANGED started
            /\ UNCHANGED <<start_exp_name, start_i, cur>>
    /\ UNCHANGED <<config, expander, csv, dat, xml, hdr, crashes, bad, resumed, collator>>

\* the head of the experiment loop down to the restart handling: exp_all and
\* exp_start_i of the next selected experiment, or the end of main
BeginExperiment(r) ==
    /\ pc[r] = "experiment"
    /\ IF cur[r] > Len(experiments)
       THEN /\ pc' = [pc EXCEPT ![r] = "done"]
            /\ Forget(r)
       ELSE LET e == experiments[cur[r]] IN
            /\ pc' = [pc EXCEPT ![r] = "index"]
            /\ exp_all' = [exp_all EXCEPT ![r] = ExpAll(e)]
            /\ exp_clone' = [exp_clone EXCEPT ![r] = 0]
            /\ IF started[r]
               THEN /\ exp_i' = [exp_i EXCEPT ![r] = r]
                    /\ UNCHANGED started
               ELSE IF start_exp_name[r] = SafeName(e.name)
               THEN /\ exp_i' = [exp_i EXCEPT ![r] = start_i[r]]
                    /\ started' = [started EXCEPT ![r] = TRUE]
               ELSE /\ exp_i' = [exp_i EXCEPT ![r] = NumIndividualRuns(e) + 1]
                    /\ UNCHANGED started
            /\ UNCHANGED <<start_exp_name, start_i, cur>>
    /\ UNCHANGED <<config, expander, csv, dat, xml, hdr, crashes, bad, resumed, collator>>

\* for exp_i in range(exp_start_i, num_individual_runs, mpi_size):
\*     exp = exp_all[exp_i]
NextIndex(r) ==
    /\ pc[r] = "index"
    /\ IF exp_i[r] < NumIndividualRuns(experiments[cur[r]])
       THEN IF exp_i[r] + 1 > Len(exp_all[r])
            THEN Die(r)   \* IndexError: list index out of range
            ELSE /\ pc' = [pc EXCEPT ![r] = "clone"]
                 /\ exp_clone' = [exp_clone EXCEPT ![r] = 0]
                 /\ UNCHANGED <<start_exp_name, start_i, started, cur, exp_all, exp_i>>
       ELSE /\ pc' = [pc EXCEPT ![r] = "experiment"]
            /\ cur' = [cur EXCEPT ![r] = cur[r] + 1]
            /\ UNCHANGED <<start_exp_name, start_i, started, exp_all, exp_i, exp_clone>>
    /\ UNCHANGED <<config, expander, csv, dat, xml, hdr, crashes, bad, resumed, collator>>

\* the clone loop with the index loop behind it stepping by one
WriteInstanceXmlStepOne(r) ==
    /\ pc[r] = "clone"
    /\ IF exp_clone[r] < RepsOfExperiment(experiments[cur[r]], repetitions_per_run)
       THEN /\ pc' = [pc EXCEPT ![r] = "run"]
            /\ xml' = [xml EXCEPT ![r] = TRUE]
            /\ UNCHANGED exp_i
       ELSE /\ pc' = [pc EXCEPT ![r] = "index"]
            /\ exp_i' = [exp_i EXCEPT ![r] = exp_i[r] + 1]
            /\ UNCHANGED xml
    /\ UNCHANGED <<config, expander, start_exp_name, start_i, started, cur, exp_all, exp_clone,
                   csv, dat, hdr, crashes, bad, resumed, collator>>

\* for exp_clone in range(reps_of_experiment): ... write_instance_xml
WriteInstanceXml(r) ==
    /\ pc[r] = "clone"
    /\ IF exp_clone[r] < RepsOfExperiment(experiments[cur[r]], repetitions_per_run)
       THEN /\ pc' = [pc EXCEPT ![r] = "run"]
            /\ xml' = [xml EXCEPT ![r] = TRUE]
            /\ UNCHANGED exp_i
       ELSE /\ pc' = [pc EXCEPT ![r] = "index"]
            /\ exp_i' = [exp_i EXCEPT ![r] = exp_i[r] + mpi_size]
            /\ UNCHANGED xml
    /\ UNCHANGED <<config, expander, start_exp_name, start_i, started, cur, exp_all, exp_clone,
                   csv, dat, hdr, crashes, bad, resumed, collator>>

\* run_nlogo: os.system of the simulation, its exit status ignored.  It
\* writes a full table, or (at most MaxBad times) a table cut short after
\* the column names or before them, or nothing at all, leaving what was there
RunNlogo(r) ==
    /\ pc[r] = "run"
    /\ \/ /\ dat' = [dat EXCEPT ![r] = [exists |-> TRUE, nlines |-> DataRow + 1]]
          /\ UNCHANGED bad
       \/ /\ bad < MaxBad
          /\ bad' = bad + 1
          /\ \/ dat' = [dat EXCEPT ![r] = [exists |-> TRUE, nlines |-> HeaderRow + 1]]
             \/ dat' = [dat EXCEPT ![r] = [exists |-> TRUE, nlines |-> 0]]
             \/ UNCHANGED dat
    /\ pc' = [pc EXCEPT ![r] = "append"]
    /\ UNCHANGED <<config, expander, locals, csv, xml, hdr, crashes, resumed, collator>>

\* the record append_data_to_cvs writes
RecordLine(experiment_name, i, nlines) ==
    experiment_name \o <<COMMA>> \o ZFill(Digits(i), ZFillWidth) \o <<COMMA>>
       \o (IF nlines > DataRow THEN StripQuotes(DatLine(DataRow)) ELSE <<NL>>)

\* append_data_to_cvs taking a table without its data row for an error
AppendDataToCvsStrict(r) ==
    /\ pc[r] = "append"
    /\ IF ~dat[r].exists \/ dat[r].nlines <= DataRow
       THEN /\ Die(r)
            /\ UNCHANGED csv
       ELSE /\ csv' = [csv EXCEPT ![r] =
                 AppendTo(csv[r], RecordLine(SafeName(experiments[cur[r]].name),
                                             exp_i[r], dat[r].nlines))]
            /\ pc' = [pc EXCEPT ![r] = "header"]
            /\ UNCHANGED locals
    /\ UNCHANGED <<config, expander, dat, xml, hdr, crashes, bad, resumed, collator>>

\* append_data_to_cvs; a missing .dat is an IOError and exit(errno)
AppendDataToCvs(r) ==
    /\ pc[r] = "append"
    /\ IF ~dat[r].exists
       THEN /\ Die(r)
            /\ UNCHANGED csv
       ELSE /\ csv' = [csv EXCEPT ![r] =
                 AppendTo(csv[r], RecordLine(SafeName(experiments[cur[r]].name),
                                             exp_i[r], dat[r].nlines))]
            /\ pc' = [pc EXCEPT ![r] = "header"]
            /\ UNCHANGED locals
    /\ UNCHANGED <<config, expander, dat, xml, hdr, crashes, bad, resumed, collator>>

\* the string append_header writes
HeaderLine(experiment_name, nlines) ==
    experiment_name \o <<COMMA, 114, 117, 110, 95, 110, 117, 109, 98, 101, 114, COMMA>>
       \o (IF nlines > HeaderRow THEN DatLine(HeaderRow) ELSE <<>>)

\* append_header at the first index the worker owns instead of index 0
AppendHeaderAtFirstOwn(r) ==
    /\ pc[r] = "header"
    /\ IF exp_i[r] = r
       THEN hdr' = AppendTo(hdr, HeaderLine(SafeName(experiments[cur[r]].name),
                                            dat[r].nlines))
       ELSE UNCHANGED hdr
    /\ pc' = [pc EXCEPT ![r] = "remove"]
    /\ UNCHANGED <<config, expander, locals, csv, dat, xml, crashes, bad, resumed, collator>>

\* if exp_i == 0: append_header
AppendHeader(r) ==
    /\ pc[r] = "header"
    /\ IF exp_i[r] = 0
       THEN hdr' = AppendTo(hdr, HeaderLine(SafeName(experiments[cur[r]].name),
                                            dat[r].nlines))
       ELSE UNCHANGED hdr
    /\ pc' = [pc EXCEPT ![r] = "remove"]
    /\ UNCHANGED <<config, expander, locals, csv, dat, xml, crashes, bad, resumed, collator>>

\* os.remove(xml_filename); os.remove(dat_filename); next clone
RemoveTemp(r) ==
    /\ pc[r] = "remove"
    /\ xml' = [xml EXCEPT ![r] = FALSE]
    /\ dat' = [dat EXCEPT ![r] = NoDat]
    /\ exp_clone' = [exp_clone EXCEPT ![r] = exp_clone[r] + 1]
    /\ pc' = [pc EXCEPT ![r] = "clone"]
    /\ UNCHANGED <<config, expander, start_exp_name, start_i, started, cur, exp_all, exp_i,
                   csv, hdr, crashes, bad, resumed, collator>>

Running(r) == pc[r] \in {"experiment", "index", "clone", "run", "append", "header", "remove"}

\* the worker is killed: its files stay as they are
Crash(r) ==
    /\ Running(r)
    /\ crashes < MaxCrashes
    /\ crashes' = crashes + 1
    /\ pc' = [pc EXCEPT ![r] = "crashed"]
    /\ Forget(r)
    /\ UNCHANGED <<config, expander, csv, dat, xml, hdr, bad, resumed, collator>>

\* the identical command is run again for the same rank
Restart(r) ==
    /\ pc[r] = "crashed"
    /\ cpc = "idle"
    /\ pc' = [pc EXCEPT ![r] = "start"]
    /\ resumed' = [resumed EXCEPT ![r] =
                      IF csv[r].exists THEN Len(ReadLines(csv[r])) ELSE 0]
    /\ UNCHANGED <<config, expander, locals, csv, dat, xml, hdr, crashes, bad, collator>>

\* the identical command is run again for a rank whose process has ended
\* its sweep (once per rank, and only for a rank never run again before)
Rerun(r) ==
    /\ pc[r] = "done"
    /\ resumed[r] = -1
    /\ cpc = "idle"
    /\ pc' = [pc EXCEPT ![r] = "start"]
    /\ resumed' = [resumed EXCEPT ![r] =
                      IF csv[r].exists THEN Len(ReadLines(csv[r])) ELSE 0]
    /\ UNCHANGED <<config, expander, locals, csv, dat, xml, hdr, crashes, bad, collator>>

\* collect_data.py, run once no worker is running
CollectData ==
    /\ cpc = "idle"
    /\ \A r \in Ranks : pc[r] \in {"done", "failed", "crashed"}
    /\ LET present == SelectSeq([k \in 1..mpi_size |-> csv[k - 1]], LAMBDA f : f.exists)
           c == Collate(present, hdr)
       IN  /\ cpc' = IF c.failed THEN "failed" ELSE "done"
           /\ all_lines' = c.all_lines
           /\ out' = c.out
    /\ UNCHANGED <<config, expander, pc, locals, csv, dat, xml, hdr, crashes, bad, resumed>>

Next ==
    \/ \E r \in Ranks : Start(r)
    \/ \E r \in Ranks : BeginExperiment(r)
    \/ \E r \in Ranks : NextIndex(r)
    \/ \E r \in Ranks : WriteInstanceXml(r)
    \/ \E r \in Ranks : RunNlogo(r)
    \/ \E r \in Ranks : AppendDataToCvs(r)
    \/ \E r \in Ranks : AppendHeader(r)
    \/ \E r \in Ranks : RemoveTemp(r)
    \/ \E r \in Ranks : Crash(r)
    \/ \E r \in Ranks : Restart(r)
    \/ CollectData

Spec == Init /\ [][Next]_vars

\* ------------------------------------------------- one worker on its own
\* The process of one rank of the job, the other ranks left out: a worker
\* reads and writes only the files named by its own rank and headers.dat.
\* It may be killed and run again, and run again after it has ended; every
\* simulation writes its full table.
InitWorker ==
    /\ mpi_size \in 1..MaxWorkers
    /\ \E shapes \in ExperimentLists : experiments = MakeExperiments(shapes)
    /\ repetitions_per_run \in {0, 1}
    /\ InitWorkers
    /\ \E me \in Ranks : pc = [r \in Ranks |-> IF r = me THEN "start" ELSE "off"]
    /\ csv = [r \in Ranks |-> NoFile]
    /\ hdr = NoFile
    /\ crashes = 0
    /\ bad = MaxBad
    /\ InitCollator
    /\ InitExpander

NextWorker ==
    \/ \E r \in Ranks : Start(r)
    \/ \E r \in Ranks : BeginExperiment(r)
    \/ \E r \in Ranks : NextIndex(r)
    \/ \E r \in Ranks : WriteInstanceXml(r)
    \/ \E r \in Ranks : RunNlogo(r)
    \/ \E r \in Ranks : AppendDataToCvs(r)
    \/ \E r \in Ranks : AppendHeader(r)
    \/ \E r \in Ranks : RemoveTemp(r)
    \/ \E r \in Ranks : Crash(r)
    \/ \E r \in Ranks : Restart(r)
    \/ \E r \in Ranks : Rerun(r)

WorkerSpec == InitWorker /\ [][NextWorker]_vars

\* ------------------------------------- one worker and a failing simulation
\* The process of one rank, never killed; up to MaxBad of its simulations do
\* not write their full table.
InitOutput ==
    /\ mpi_size \in 1..MaxWorkers
    /\ \E shapes \in ExperimentLists : experiments = MakeExperiments(shapes)
    /\ repetitions_per_run \in {0, 1}
    /\ InitWorkers
    /\ \E me \in Ranks : pc = [r \in Ranks |-> IF r = me THEN "start" ELSE "off"]
    /\ csv = [r \in Ranks |-> NoFile]
    /\ hdr = NoFile
    /\ crashes = MaxCrashes
    /\ bad = 0
    /\ InitCollator
    /\ InitExpander

NextOutput ==
    \/ \E r \in Ranks : Start(r)
    \/ \E r \in Ranks : BeginExperiment(r)
    \/ \E r \in Ranks : NextIndex(r)
    \/ \E r \in Ranks : WriteInstanceXml(r)
    \/ \E r \in Ranks : RunNlogo(r)
    \/ \E r \in Ranks : AppendDataToCvs(r)
    \/ \E r \in Ranks : AppendHeader(r)
    \/ \E r \in Ranks : RemoveTemp(r)

OutputSpec == InitOutput /\ [][NextOutput]_vars

\* ----------------------------------------------- the expander in the driver
\* One worker and one experiment drawn from a wider range of value sets;
\* no kill, no collation, every simulation writes its full table.
ExpandValues == { <<1>>, <<1, 2>>, <<1, 2, 3>> }
ExpandSteps == { [variable |-> "s", first |-> 0, step |-> 1, last |-> 0],
                 [variable |-> "s", first |-> 0, step |-> 2, last |-> 3],
                 [variable |-> "s", first |-> 2, step |-> 1, last |-> 1] }
ExpandShapes ==
    { [evs |-> [k \in 1..Len(vs) |-> [variable |-> IF k = 1 THEN "x" ELSE "y",
                                       values |-> vs[k]]],
       svs |-> ss] :
        vs \in UNION { [1..n -> ExpandValues] : n \in 0..2 },
        ss \in {<<>>} \cup { <<t>> : t \in ExpandSteps } }

InitExpand ==
    /\ mpi_size \in 1..MaxWorkers
    /\ \E shape \in ExpandShapes : experiments = MakeExperiments(<<shape>>)
    /\ repetitions_per_run = 0
    /\ InitWorkers
    /\ pc = [r \in Ranks |-> "start"]
    /\ csv = [r \in Ranks |-> NoFile]
    /\ hdr = NoFile
    /\ crashes = MaxCrashes
    /\ bad = MaxBad
    /\ InitCollator
    /\ InitExpander

NextExpand ==
    \/ \E r \in Ranks : Start(r)
    \/ \E r \in Ranks : BeginExperiment(r)
    \/ \E r \in Ranks : NextIndex(r)
    \/ \E r \in Ranks : WriteInstanceXml(r)
    \/ \E r \in Ranks : RunNlogo(r)
    \/ \E r \in Ranks : AppendDataToCvs(r)
    \/ \E r \in Ranks : AppendHeader(r)
    \/ \E r \in Ranks : RemoveTemp(r)

ExpandSpec == InitExpand /\ [][NextExpand]_vars

\* ------------------------------------------------- the collator on its own
\* collect_data.py run on result files and a header list of any content:
\* two result files of up to MaxFileLines records, up to MaxHeaders headers.
MaxFileLines == 2
MaxHeaders == 2

SeqsUpTo(S, n) == UNION { [1..m -> S] : m \in 0..n }

CollateRecords ==
    { RecordLine(<<97>>, 0, DataRow + 1), RecordLine(<<97>>, 1, DataRow + 1),
      RecordLine(<<97, 43>>, 0, DataRow + 1) }
CollateHeaders ==
    { HeaderLine(<<97>>, HeaderRow + 1), HeaderLine(<<97, 43>>, HeaderRow + 1),
      HeaderLine(<<98>>, HeaderRow + 1) }

InitCollate ==
    /\ mpi_size = 2
    /\ experiments = <<>>
    /\ repetitions_per_run = 0
    /\ InitWorkers
    /\ pc = [r \in Ranks |-> "done"]
    /\ csv \in [Ranks -> { [exists |-> TRUE, writes |-> w] :
                              w \in SeqsUpTo(CollateRecords, MaxFileLines) }]
    /\ hdr \in {NoFile} \cup { [exists |-> TRUE, writes |-> w] :
                                  w \in SeqsUpTo(CollateHeaders, MaxHeaders) }
    /\ crashes = 0
    /\ bad = 0
    /\ InitCollator
    /\ InitExpander

CollateSpec == InitCollate /\ [][CollectData]_vars

\* ------------------------------------- the collator on a sweep of many runs
\* collect_data.py run on the result files of two workers of a sweep of more
\* than 10^ZFillWidth combinations: each rank's file holds records of
\* indices it owns, the first ones and the ones on either side of the width
\* of the index field.
RECURSIVE Pow10(_)
Pow10(n) == IF n = 0 THEN 1 ELSE 10 * Pow10(n - 1)

WideIndices == {0, 1, Pow10(ZFillWidth) - 1, Pow10(ZFillWidth)}

WideRecords(r) ==
    { RecordLine(name, i, DataRow + 1) :
        name \in {<<97>>, <<97, 43>>}, i \in { j \in WideIndices : j % 2 = r } }

InitWide ==
    /\ mpi_size = 2
    /\ experiments = <<>>
    /\ repetitions_per_run = 0
    /\ InitWorkers
    /\ pc = [r \in Ranks |-> "done"]
    /\ \E w0 \in SeqsUpTo(WideRecords(0), MaxFileLines) :
       \E w1 \in SeqsUpTo(WideRecords(1), MaxFileLines) :
          csv = [r \in Ranks |-> [exists |-> TRUE, writes |-> IF r = 0 THEN w0 ELSE w1]]
    /\ hdr \in { NoFile, [exists |-> TRUE, writes |-> <<>>],
                 [exists |-> TRUE, writes |-> <<HeaderLine(<<97>>, HeaderRow + 1)>>] }
    /\ crashes = 0
    /\ bad = 0
    /\ InitCollator
    /\ InitExpander

WideSpec == InitWide /\ [][CollectData]_vars

\* ------------------------------------------- the functions of nlogo_io alone
\* A call of steppedValueSet followed statement by statement, and a call of
\* expandValueSets run to exhaustion, on arguments of any kind: first and
\* last in 0..MaxLast, step in -1..MaxLast; up to MaxTuples value tuples of
\* up to MaxLast values.
MaxLast == 2
MaxTuples == 2

\* A call that returns has made at most MaxLast + 1 iterations.  The model
\* tells iteration counts apart up to Far and keeps the first Far values;
\* from there on n and values stand for "Far or more".
Far == MaxLast + 2

SteppedInputs == [first : 0..MaxLast, step : (0 - 1)..MaxLast, last : 0..MaxLast]

TupleInputs ==
    UNION { [1..m -> { [variable |-> "x", values |-> [j \in 1..k |-> j]] : k \in 0..MaxLast }] :
              m \in 0..MaxTuples }

InitCall ==
    /\ mpi_size = 1
    /\ experiments = <<>>
    /\ repetitions_per_run = 0
    /\ InitWorkers
    /\ pc = [r \in Ranks |-> "off"]
    /\ csv = [r \in Ranks |-> NoFile]
    /\ hdr = NoFile
    /\ crashes = 0
    /\ bad = 0
    /\ InitCollator
    /\ \/ /\ vs_pc = "while"
          /\ \E a \in SteppedInputs :
                \* n = 0; val = first; values = []
                stepped = [first |-> a.first, step |-> a.step, last |-> a.last,
                           n |-> 0, val |-> a.first, values |-> <<>>]
          /\ expanded = [value_tuples |-> <<>>, out |-> <<>>]
       \/ /\ vs_pc = "expand"
          /\ stepped = [first |-> 0, step |-> 0, last |-> 0, n |-> 0, val |-> 0, values |-> <<>>]
          /\ \E t \in TupleInputs : expanded = [value_tuples |-> t, out |-> <<>>]

\* the loop test taking last as exclusive
SteppedTestExclusive ==
    /\ vs_pc = "while"
    /\ vs_pc' = IF stepped.val < stepped.last THEN "append" ELSE "returned"
    /\ UNCHANGED <<config, locals, pc, csv, dat, xml, hdr, crashes, bad, resumed,
                   collator, stepped, expanded>>

\* while val <= last: ... return values
SteppedTest ==
    /\ vs_pc = "while"
    /\ vs_pc' = IF stepped.val <= stepped.last THEN "append" ELSE "returned"
    /\ UNCHANGED <<config, locals, pc, csv, dat, xml, hdr, crashes, bad, resumed,
                   collator, stepped, expanded>>

\* values.append(val)
SteppedAppend ==
    /\ vs_pc = "append"
    /\ vs_pc' = "incr"
    /\ stepped' = [stepped EXCEPT !.values =
                      IF Len(@) < Far THEN Append(@, stepped.val) ELSE @]
    /\ UNCHANGED <<config, locals, pc, csv, dat, xml, hdr, crashes, bad, resumed,
                   collator, expanded>>

\* n+=1
SteppedIncr ==
    /\ vs_pc = "incr"
    /\ vs_pc' = "assign"
    /\ stepped' = [stepped EXCEPT !.n = IF @ < Far THEN @ + 1 ELSE @]
    /\ UNCHANGED <<config, locals, pc, csv, dat, xml, hdr, crashes, bad, resumed,
                   collator, expanded>>

\* val = first + n * step
SteppedAssign ==
    /\ vs_pc = "assign"
    /\ vs_pc' = "while"
    /\ stepped' = [stepped EXCEPT !.val = stepped.first + stepped.n * stepped.step]
    /\ UNCHANGED <<config, locals, pc, csv, dat, xml, hdr, crashes, bad, resumed,
                   collator, expanded>>

\* list(expandValueSets(value_tuples))
ExpandCall ==
    /\ vs_pc = "expand"
    /\ LET e == expandValueSets(expanded.value_tuples) IN
          /\ vs_pc' = IF e.raised THEN "raised" ELSE "expanded"
          /\ expanded' = [expanded EXCEPT !.out = e.out]
    /\ UNCHANGED <<config, locals, pc, csv, dat, xml, hdr, crashes, bad, resumed,
                   collator, stepped>>

NextCall ==
    \/ SteppedTest
    \/ SteppedAppend
    \/ SteppedIncr
    \/ SteppedAssign
    \/ ExpandCall

\* a call that has a next statement executes it
CallSpec == InitCall /\ [][NextCall]_vars /\ WF_vars(NextCall)

\* ------------------------------------------------- reading the files back
RECURSIVE AfterComma(_)
\* s.partition(",")[2]: the text after the first comma
AfterComma(s) ==
    IF s = <<>> THEN <<>>
    ELSE IF Head(s) = COMMA THEN Tail(s)
    ELSE AfterComma(Tail(s))

RECURSIVE ParseInt(_)
\* int(s) of a string of decimal digits
ParseInt(s) ==
    IF s = <<>> THEN 0 ELSE 10 * ParseInt(SubSeq(s, 1, Len(s) - 1)) + (s[Len(s)] - 48)

RecordKey(line) == Partition0(line)
RecordIndex(line) == ParseInt(Partition0(AfterComma(line)))
IsHeaderLine(line) ==
    Partition0(AfterComma(line)) = <<114, 117, 110, 95, 110, 117, 109, 98, 101, 114>>

Range(f) == { f[x] : x \in DOMAIN f }
Count(seqn, P(_)) == Cardinality({ j \in 1..Len(seqn) : P(seqn[j]) })

Names == get_experiment_names(experiments)
Lengths == get_experiment_lengths(experiments)

\* the combination indices of experiment k recorded in the result file of rank r
Processed(r, k) ==
    { RecordIndex(l) : l \in { m \in Range(ReadLines(csv[r])) : RecordKey(m) = Names[k] } }

\* the <<experiment name, index>> pairs of the result file of rank r, in file order
PairsOf(r) ==
    LET ls == ReadLines(csv[r]) IN
    [j \in 1..Len(ls) |-> <<RecordKey(ls[j]), RecordIndex(ls[j])>>]

AllEnded == \A r \in Ranks : pc[r] \in {"done", "failed"}

\* ------------------------------------------------------------------ claims

\* C1: in a run with no prior checkpoint (no kill, every simulation writing
\* its table), once every worker has ended, the index sets recorded by the
\* ranks for each experiment are pairwise disjoint and their union is
\* exactly 0..size-1.
C1_ExactPartition ==
    (crashes = 0 /\ bad = 0 /\ AllEnded) =>
        \A k \in 1..Len(experiments) :
            /\ \A r1, r2 \in Ranks : r1 # r2 => Processed(r1, k) \cap Processed(r2, k) = {}
            /\ UNION { Processed(r, k) : r \in Ranks } = 0..(Lengths[k] - 1)

RECURSIVE RangeSeq(_, _, _)
\* list(range(start, stop, step)) for step > 0
RangeSeq(start, stop, step) ==
    IF start >= stop THEN <<>> ELSE <<start>> \o RangeSeq(start + step, stop, step)

RECURSIVE Repeat(_, _)
Repeat(x, n) == IF n = 0 THEN <<>> ELSE <<x>> \o Repeat(x, n - 1)

RECURSIVE RunFrom(_, _)
\* what a run of rank r that starts with no result file and is never
\* killed records from experiment k on, every simulation writing its table
RunFrom(k, r) ==
    IF k > Len(experiments) THEN <<>>
    ELSE LET e == experiments[k]
             idxs == RangeSeq(r, NumIndividualRuns(e), mpi_size)
             reps == RepsOfExperiment(e, repetitions_per_run)
         IN  IF idxs # <<>> /\ ExpAll(e) = <<>> THEN <<>>
             ELSE Concat([j \in 1..Len(idxs) |->
                            Repeat(<<SafeName(e.name), idxs[j]>>, reps)])
                    \o RunFrom(k + 1, r)

UninterruptedRun(r) == RunFrom(1, r)

Suffix(seqn, from) == SubSeq(seqn, from + 1, Len(seqn))

\* C2: a worker restarted on a result file of n >= 1 records (its last
\* record the checkpoint) has, when it ends, recorded after the checkpoint
\* exactly what the uninterrupted run of that rank records after it.
C2_ResumeSuffix ==
    \A r \in Ranks :
        (pc[r] \in {"done", "failed"} /\ resumed[r] >= 1 /\ bad = 0) =>
            Suffix(PairsOf(r), resumed[r]) = Suffix(UninterruptedRun(r), resumed[r])

\* how many records of the result file of rank r carry the pair p
RecordsOf(r, p) == Count(PairsOf(r), LAMBDA q : q = p)

\* reps_of_experiment of the experiment named name
RepsOfName(name) ==
    LET k == CHOOSE j \in 1..Len(experiments) : Names[j] = name
    IN  RepsOfExperiment(experiments[k], repetitions_per_run)

C4_AllRecorded ==
    (AllEnded /\ bad = 0 /\ \A k \in 1..Len(experiments) : Lengths[k] # 1) =>
        \A k \in 1..Len(experiments) :
            UNION { Processed(r, k) : r \in Ranks } = 0..(Lengths[k] - 1)

\* the header lines of experiment k in headers.dat
HeadersOf(k) == Count(ReadLines(hdr), LAMBDA l : RecordKey(l) = Names[k])

\* C5: headers.dat never holds two header lines for one experiment, and an
\* experiment whose index 0 is recorded has its header line once the worker
\* that recorded it has ended (here with the repetitions not split and
\* every simulation writing its table).
C5_OneHeaderPerExperiment ==
    (bad = 0 /\ repetitions_per_run = 0) =>
        \A k \in 1..Len(experiments) :
            /\ HeadersOf(k) <= 1
            /\ \A r \in Ranks :
                  (pc[r] \in {"done", "failed"} /\ 0 \in Processed(r, k)) => HeadersOf(k) = 1

\* C6: after collation every group of records of one experiment name has
\* exactly one header line of that name in the output, immediately before
\* the group's first record (no worker killed, every simulation having
\* written its table).
C6_OneHeaderBeforeGroup ==
    (cpc = "done" /\ crashes = 0 /\ bad = 0) =>
        LET ls == Concat(out)
            recs == { j \in 1..Len(ls) : ~IsHeaderLine(ls[j]) }
        IN  \A j \in recs :
               LET key == RecordKey(ls[j])
                   first == CHOOSE f \in recs :
                               /\ RecordKey(ls[f]) = key
                               /\ \A g \in recs : RecordKey(ls[g]) = key => f <= g
                   heads == { h \in 1..Len(ls) : IsHeaderLine(ls[h]) /\ RecordKey(ls[h]) = key }
               IN  heads = {first - 1}

\* C10: an experiment with no multi-value set is run as one dummy
\* combination: once the workers have ended (no kill, repetitions not split,
\* every simulation writing its table) rank 0 holds exactly one record for
\* its index 0 and no other rank holds a record for it.
C10_DummyCombinationRun ==
    (crashes = 0 /\ bad = 0 /\ repetitions_per_run = 0 /\ AllEnded) =>
        \A k \in 1..Len(experiments) :
            ValueTuples(experiments[k]) = <<>> =>
                /\ RecordsOf(0, <<Names[k], 0>>) = 1
                /\ \A r \in Ranks \ {0} : Processed(r, k) = {}

\* the combination of index i by mixed-radix decomposition of i against the
\* value counts, the first value tuple the most significant digit
MixedRadix(value_tuples, i) ==
    [k \in 1..Len(value_tuples) |->
        LET below == Product([j \in 1..(Len(value_tuples) - k) |->
                                 Len(value_tuples[k + j].values)])
            digit == (i \div below) % Len(value_tuples[k].values)
        IN  [variable |-> value_tuples[k].variable,
             value |-> value_tuples[k].values[digit + 1]]]

\* C9: for a non-empty list of value tuples the driver's list of
\* combinations has exactly n_1*...*n_k elements, none repeated, and the
\* element it uses for index i is the mixed-radix decomposition of i.
C9_MixedRadixIndexing ==
    \A r \in Ranks :
        (Running(r) /\ pc[r] # "experiment" /\ ValueTuples(experiments[cur[r]]) # <<>>) =>
            LET vt == ValueTuples(experiments[cur[r]])
                n == NumIndividualRuns(experiments[cur[r]])
            IN  /\ Len(exp_all[r]) = n
                /\ \A i \in 0..(n - 1) : exp_all[r][i + 1] = MixedRadix(vt, i)
                /\ \A i, j \in 1..n : i # j => exp_all[r][i] # exp_all[r][j]

\* ---- the collator's claims, over result files and headers of any content
FileLines == Concat([k \in 1..mpi_size |-> ReadLines(csv[k - 1])])
RecordKeys == { RecordKey(l) : l \in Range(FileLines) }
Dangling(header) == RecordKey(header) \notin RecordKeys
Present == SelectSeq([k \in 1..mpi_size |-> csv[k - 1]], LAMBDA f : f.exists)

\* C7: a header whose leading field is the leading field of no record is in
\* no output file, and the output is what collation of the same files with
\* that header taken out of the header list gives.
C7_DanglingHeaderDropped ==
    cpc # "idle" =>
        /\ \A h \in Range(ReadLines(hdr)) :
              Dangling(h) => \A k \in 1..Len(out) : h \notin Range(out[k])
        /\ out = Collate(Present,
                         [exists |-> hdr.exists,
                          writes |-> SelectSeq(ReadLines(hdr), LAMBDA h : ~Dangling(h))]).out

\* C7 witness: collation has finished on a header list holding a dangling
\* header next to a header whose records are present.
C7_Witness ==
    /\ cpc = "done"
    /\ \E h \in Range(ReadLines(hdr)) : Dangling(h)
    /\ \E h \in Range(ReadLines(hdr)) : ~Dangling(h)

Reverse(seqn) == [j \in 1..Len(seqn) |-> seqn[Len(seqn) + 1 - j]]

\* the lines of one key: its headers, the last appended first, then its
\* records in sorted order
LinesOfKey(key) ==
    Reverse(SelectSeq(ReadLines(hdr), LAMBDA h : RecordKey(h) = key))
       \o SelectSeq(SortLines(FileLines), LAMBDA l : RecordKey(l) = key)

\* the files are one per key of the records, the file of a key at the
\* position the key takes among the keys under Before
SplitByKey(Before(_, _)) ==
    /\ cpc = "failed" => out = <<>>
    /\ cpc = "done" =>
          /\ Len(out) = Cardinality(RecordKeys)
          /\ \A key \in RecordKeys :
                out[1 + Cardinality({ k2 \in RecordKeys : Before(k2, key) })]
                   = LinesOfKey(key)

\* C8 (as amended): split-mode collation that runs to its end writes
\* exactly one file per distinct key of the record lines, each holding
\* exactly the header and record lines of its key, numbered from 000 in the
\* order the keys' groups take in the sorted line list, that is in the order
\* of the keys each followed by a comma.
C8_SplitFilesByKey ==
    SplitByKey(LAMBDA a, b : LexLess(a \o <<COMMA>>, b \o <<COMMA>>))

\* C8 (as claimed): ... numbered from 000 in sorted key order.
C8_SortedKeyOrder == SplitByKey(LexLess)

\* C8 witness: collation has written two files, each a header and records.
C8_Witness == cpc = "done" /\ Len(out) = 2 /\ Len(out[1]) >= 2 /\ Len(out[2]) >= 2

\* ---- the driver's claims on simulations that do not write their table

\* the record of a combination whose simulation gave no data row
EmptyRecord(experiment_name, i) ==
    experiment_name \o <<COMMA>> \o ZFill(Digits(i), ZFillWidth) \o <<COMMA, NL>>

HasEmptyField(line) ==
    Len(line) >= 2 /\ line[Len(line) - 1] = COMMA /\ line[Len(line)] = NL

\* the append on a table that exists but stops before its data row: the
\* record with the empty field is written and the worker goes on to the
\* header step of the same combination
C11_AppendStep ==
    \A r \in Ranks :
        (pc[r] = "append" /\ dat[r].exists /\ dat[r].nlines <= DataRow /\ pc'[r] # pc[r]) =>
            /\ pc'[r] = "header"
            /\ csv'[r].writes =
                  Append(csv[r].writes,
                         EmptyRecord(SafeName(experiments[cur[r]].name), exp_i[r]))
            /\ exp_i'[r] = exp_i[r]
            /\ cur'[r] = cur[r]

\* nothing after the append fails the worker, and a worker that ends its
\* run has recorded every combination of the uninterrupted run, in order
C11_Continues ==
    \A r \in Ranks :
        /\ pc[r] \in {"header", "remove", "clone"} => pc'[r] # "failed"
        /\ pc'[r] = "done" => PairsOf(r) = UninterruptedRun(r)

\* C11: when the simulation's table exists but has no data row, the worker
\* appends the record made of the experiment name, the zero-padded index and
\* an empty last field, does not fail, and goes on with its next index.
C11_ShortOutputRecorded == [][C11_AppendStep /\ C11_Continues]_vars

\* C11 witness: a worker has ended its run with a record of an empty last
\* field followed by the record of a later combination.
C11_Witness ==
    \E r \in Ranks :
        /\ pc[r] = "done"
        /\ \E j \in 1..(Len(PairsOf(r)) - 1) :
              /\ HasEmptyField(ReadLines(csv[r])[j])
              /\ PairsOf(r)[j + 1] # PairsOf(r)[j]

\* C13: a worker that is not in the middle of a combination, whether it goes
\* on, has ended its sweep or has exited on an error, has left neither its
\* procNNNN.xml nor its procNNNN.dat behind (no worker killed).
C13_NoTempFilesLeft ==
    \A r \in Ranks :
        pc[r] \in {"experiment", "index", "clone", "done", "failed"} =>
            ~xml[r] /\ ~dat[r].exists

\* s starts with t
StartsWith(s, t) == Len(s) >= Len(t) /\ SubSeq(s, 1, Len(t)) = t

\* C18: every string appended to headers.dat is one whole line: it starts
\* with an experiment name and the field run_number and ends in a newline,
\* so that the file reads back as one line per append, also when the
\* simulation's table was too short to hold the header row.
C18_HeaderLinesWhole ==
    /\ \A j \in 1..Len(hdr.writes) :
          /\ \E k \in 1..Len(experiments) :
                StartsWith(hdr.writes[j],
                           Names[k] \o <<COMMA, 114, 117, 110, 95, 110, 117, 109, 98, 101, 114, COMMA>>)
          /\ hdr.writes[j][Len(hdr.writes[j])] = NL
    /\ Len(ReadLines(hdr)) = Len(hdr.writes)

\* ---- the planner's claims

\* the experiment and index of record n of the result file of rank r
Checkpoint(r, n) == PairsOf(r)[n]

\* the indices of experiment k that rank r owns
Owned(r, k) == RangeSeq(r, Lengths[k], mpi_size)

\* the checkpoint rank r was run again on is its last owned index of the
\* last selected experiment
AtLastOwned(r) ==
    LET k == Len(experiments) IN
    /\ resumed[r] >= 1
    /\ Owned(r, k) # <<>>
    /\ Checkpoint(r, resumed[r]) = <<Names[k], Owned(r, k)[Len(Owned(r, k))]>>

\* C12: a worker run again on a checkpoint that is its last owned index of
\* the last selected experiment does nothing: it neither fails nor reaches
\* a simulation, and its result file keeps the records it had.
C12_RerunIsNoOp ==
    \A r \in Ranks :
        AtLastOwned(r) =>
            /\ pc[r] \in {"start", "experiment", "index", "done", "crashed"}
            /\ Len(ReadLines(csv[r])) = resumed[r]

\* the records rank r has appended in its present run
RunRecords(r) == Suffix(PairsOf(r), IF resumed[r] > 0 THEN resumed[r] ELSE 0)

\* the position of an experiment name in the selected list
PosOf(name) == CHOOSE k \in 1..Len(experiments) : Names[k] = name

\* rank r has nothing to do in the experiments strictly between k1 and k2
NothingBetween(r, k1, k2) == \A k \in (k1 + 1)..(k2 - 1) : Owned(r, k) = <<>>

\* C14: the records of one worker run follow the declared order: the
\* first is at index rank, a record is followed by a record of the same
\* combination (a split repetition), of the same experiment at the index
\* worker_count higher, or of a later experiment at index rank once the
\* worker's indices of the earlier experiment are used up, no experiment in
\* which the worker owns an index being passed over.
C14_DeclaredOrder ==
    \A r \in Ranks :
        LET recs == RunRecords(r) IN
        /\ (recs # <<>> /\ resumed[r] <= 0) =>
               /\ recs[1][2] = r
               /\ NothingBetween(r, 0, PosOf(recs[1][1]))
        /\ \A j \in 1..(Len(recs) - 1) :
               LET p == recs[j]
                   q == recs[j + 1]
               IN  \/ q = p
                   \/ q[1] = p[1] /\ q[2] = p[2] + mpi_size
                   \/ /\ PosOf(q[1]) > PosOf(p[1])
                      /\ p[2] + mpi_size >= Lengths[PosOf(p[1])]
                      /\ q[2] = r
                      /\ NothingBetween(r, PosOf(p[1]), PosOf(q[1]))

\* C14 witness: one of two workers has ended a run in which it recorded two
\* indices of one experiment and then an index of the next.
C14_Witness ==
    \E r \in Ranks :
        LET recs == RunRecords(r) IN
        /\ pc[r] = "done"
        /\ mpi_size > 1
        /\ \E j \in 1..(Len(recs) - 2) :
              /\ recs[j][1] = recs[j + 1][1]
              /\ recs[j][2] # recs[j + 1][2]
              /\ recs[j + 1][1] # recs[j + 2][1]

\* C15: in every state, whatever kills and runs of the same command came
\* before, every record in the result file of rank r has an index i with
\* i mod worker_count = r and 0 <= i < the size of the record's experiment.
C15_RecordsAreOwned ==
    \A r \in Ranks : \A p \in Range(PairsOf(r)) :
        /\ p[1] \in Range(Names)
        /\ p[2] % mpi_size = r
        /\ 0 <= p[2]
        /\ p[2] < Lengths[PosOf(p[1])]

\* C15 witness: a rank other than 0, killed and run again, has ended with
\* records of two experiments in its result file.
C15_Witness ==
    \E r \in Ranks :
        /\ r > 0
        /\ resumed[r] = 0
        /\ pc[r] = "done"
        /\ \E p, q \in Range(PairsOf(r)) : p[1] # q[1]

\* the last line of the result file of rank r
LastLine(r) == ReadLines(csv[r])[Len(ReadLines(csv[r]))]

HasCheckpoint(r) == csv[r].exists /\ ReadLines(csv[r]) # <<>>

\* C16: what get_last_run returns for the result file a worker is about to
\* read: the empty name and -1 when there is no file, else the name and the
\* integer index of the file's last line.
C16_CheckpointRecovered ==
    \A r \in Ranks :
        pc[r] = "start" =>
            LET g == get_last_run(csv[r]) IN
            /\ ~g.raised
            /\ IF HasCheckpoint(r)
               THEN g.last_exp = RecordKey(LastLine(r)) /\ g.last_i = RecordIndex(LastLine(r))
               ELSE g.last_exp = <<>> /\ g.last_i = -1

\* the start point of rank r by the planner's rules, from the checkpoint in
\* its result file; given is FALSE where the rules name no start point (the
\* checkpoint is the rank's last index of the last experiment)
PlannedStart(r) ==
    IF ~HasCheckpoint(r)
    THEN [given |-> TRUE, exp |-> Names[1], i |-> r]
    ELSE LET k == PosOf(RecordKey(LastLine(r)))
             last == RecordIndex(LastLine(r))
         IN  IF last + mpi_size < Lengths[k]
             THEN [given |-> TRUE, exp |-> Names[k], i |-> last + mpi_size]
             ELSE IF k < Len(experiments)
             THEN [given |-> TRUE, exp |-> Names[k + 1], i |-> r]
             ELSE [given |-> FALSE, exp |-> <<>>, i |-> -1]

\* the planner's step: the worker leaves its start with the planned start point
C17_PlannerStep ==
    \A r \in Ranks :
        (pc[r] = "start" /\ pc'[r] # "start" /\ PlannedStart(r).given) =>
            /\ pc'[r] = "experiment"
            /\ start_exp_name'[r] = PlannedStart(r).exp
            /\ start_i'[r] = PlannedStart(r).i

\* the loop's use of the start point: no index of an experiment before the
\* start experiment, the start index in it, index rank in every later one
C17_LoopStep ==
    \A r \in Ranks :
        (pc[r] = "experiment" /\ pc'[r] = "index") =>
            LET k == cur[r]
                s == PosOf(start_exp_name[r])
            IN  IF k < s THEN exp_i'[r] >= Lengths[k]
                ELSE IF k = s THEN exp_i'[r] = start_i[r]
                ELSE exp_i'[r] = r

\* C17: with a checkpoint (exp, last) the planner starts at (exp, last +
\* worker_count) when that is below the size of exp, else at (the next
\* experiment, rank) when there is one; with no checkpoint at (the first
\* experiment, rank).  Experiments before the start experiment get no work
\* and every experiment after it starts at index rank.
C17_PlannedStartPoint == [][C17_PlannerStep /\ C17_LoopStep]_vars

\* ---- the collator's claims on the order of the sorted lines

\* the record lines of the collator's line list, in its order
SortedRecords == SelectSeq(all_lines, LAMBDA l : ~IsHeaderLine(l))

\* C19: after the sort the records of each experiment name form one
\* contiguous group, and within a group the combination indices ascend, for
\* every index the driver writes.
C19_GroupsAscending ==
    cpc # "idle" =>
        LET recs == SortedRecords IN
        \A i, j \in 1..Len(recs) :
            (i < j /\ RecordKey(recs[i]) = RecordKey(recs[j])) =>
                /\ \A m \in i..j : RecordKey(recs[m]) = RecordKey(recs[i])
                /\ RecordIndex(recs[i]) <= RecordIndex(recs[j])

\* a result file holding the given lines
FileOf(lines) == [exists |-> TRUE, writes |-> lines]

\* what collation of the given result files with the present headers gives
Collated(files) == LET c == Collate(files, hdr) IN <<c.failed, c.out>>

\* C20: the collator's output is that of the same record lines laid out in
\* any other way: the files read in the opposite order, the lines cut into
\* two files at any other point, and all lines in one file in sorted order
\* (one layout for each multiset of lines) give the same files.
C20_LayoutIndependent ==
    cpc # "idle" =>
        /\ <<cpc = "failed", out>> = Collated(Reverse(Present))
        /\ <<cpc = "failed", out>> = Collated(<<FileOf(SortLines(FileLines)), FileOf(<<>>)>>)
        /\ \A m \in 0..Len(FileLines) :
              <<cpc = "failed", out>> =
                 Collated(<<FileOf(SubSeq(FileLines, m + 1, Len(FileLines))),
                            FileOf(SubSeq(FileLines, 1, m))>>)

\* C20 witness: collation has written its files from two result files whose
\* lines are not in sorted order as read.
C20_Witness ==
    /\ cpc = "done"
    /\ ReadLines(csv[0]) # <<>>
    /\ ReadLines(csv[1]) # <<>>
    /\ FileLines # SortLines(FileLines)
    /\ Len(out) >= 2

\* ---- the claims on the functions of nlogo_io

\* the number of values first + n*step, n = 0, 1, ..., that come before the
\* first one above last (Far if there is none below Far)
CountUpTo(a) ==
    LET over == { n \in 0..Far : a.first + n * a.step > a.last }
    IN  IF over = {} THEN Far ELSE CHOOSE n \in over : \A m \in over : n <= m

\* C21: steppedValueSet returns exactly the values first + n*step for
\* n = 0, 1, 2, ... in that order while first + n*step <= last, and the
\* empty list when first > last.
C21_SteppedValues ==
    vs_pc = "returned" =>
        /\ stepped.values = [j \in 1..CountUpTo(stepped) |->
                                stepped.first + (j - 1) * stepped.step]
        /\ stepped.values = steppedValueSet(stepped.first, stepped.step, stepped.last)
        /\ stepped.first > stepped.last => stepped.values = <<>>

\* C21 witness: a call has returned two values or more, taken with a step
\* above one.
C21_Witness ==
    vs_pc = "returned" /\ Len(stepped.values) >= 2 /\ stepped.step > 1

\* C22: every call of steppedValueSet and of expandValueSets comes to an
\* end, whatever first, step and last and whatever the list of value lists.
C22_CallsEnd == <>(vs_pc \in {"returned", "expanded", "raised"})

\* C24: expandValueSets applied to the empty list yields exactly one
\* combination, the empty one: it neither raises nor yields nothing.
C24_EmptyListOneCombination ==
    (vs_pc \in {"expanded", "raised"} /\ expanded.value_tuples = <<>>) =>
        /\ vs_pc = "expanded"
        /\ expanded.out = << <<>> >>

\* ---- the claims on who writes which file

\* the ranks of the job and ranks on either side of the width of the rank
\* field of the file names
NamedRanks ==
    Ranks \cup { Pow10(RankWidth) - 1, Pow10(RankWidth), Pow10(RankWidth) + 1 }

\* the names of the files of rank r
NamesOf(r) == { xml_filename(r), dat_filename(r), csv_filename(r) }

\* the files of a rank have three names that no other rank's files and not
\* the header file have
C23_OwnNames ==
    \A r \in NamedRanks :
        /\ Cardinality(NamesOf(r)) = 3
        /\ hdr_filename \notin NamesOf(r)
        /\ \A q \in NamedRanks \ {r} : NamesOf(r) \cap NamesOf(q) = {}

\* a step that changes a file of rank r is a step of the worker of rank r
\* (or of its simulation), and of no other worker
C23_OwnWrites ==
    \A r \in Ranks :
        (csv'[r] # csv[r] \/ dat'[r] # dat[r] \/ xml'[r] # xml[r]) =>
            /\ pc[r] \in {"clone", "run", "append", "remove"}
            /\ pc'[r] # pc[r]
            /\ \A q \in Ranks \ {r} :
                  /\ pc'[q] = pc[q]
                  /\ csv'[q] = csv[q] /\ dat'[q] = dat[q] /\ xml'[q] = xml[q]

\* C23: the result file and the temporary files of the worker of rank r
\* are named by r alone, and in any interleaving of the workers each of them
\* is written, truncated or removed by that worker only; the header file is
\* the one file two workers may write.
C23_SingleWriter == [](C23_OwnNames) /\ [][C23_OwnWrites]_vars

\* C23 witness: two workers are between the writing and the removal of
\* their temporary files at the same time, each with records of its own.
C23_Witness ==
    \E r, q \in Ranks :
        /\ r # q
        /\ pc[r] = "remove" /\ pc[q] = "remove"
        /\ xml[r] /\ xml[q] /\ dat[r].exists /\ dat[q].exists
        /\ csv[r].exists /\ csv[q].exists

\* a step that changes headers.dat is the header step of rank 0 at index 0,
\* no other worker moving
C25_HeaderStep ==
    hdr' # hdr =>
        /\ pc[0] = "header"
        /\ pc'[0] = "remove"
        /\ exp_i[0] = 0
        /\ \A q \in Ranks \ {0} : pc'[q] = pc[q]

\* index 0 of no experiment is recorded or reached by a rank other than 0
C25_IndexZeroOfRankZero ==
    \A r \in Ranks \ {0} :
        /\ \A p \in Range(PairsOf(r)) : p[2] # 0
        /\ pc[r] \in {"clone", "run", "append", "header", "remove"} => exp_i[r] # 0

\* C25: only the worker of rank 0 ever appends to headers.dat: index 0 of
\* every experiment belongs to rank 0 and to no other rank, so no two
\* workers append to the header file.
C25_OnlyRankZeroAppends == [](C25_IndexZeroOfRankZero) /\ [][C25_HeaderStep]_vars

\* C25 witness: a rank other than 0 has ended its sweep, never run again,
\* with records of two experiments and no header file written.
C25_Witness ==
    \E r \in Ranks \ {0} :
        /\ pc[r] = "done"
        /\ resumed[r] = 0 - 1
        /\ ~hdr.exists
        /\ \E p, q \in Range(PairsOf(r)) : p[1] # q[1]

====
